---- MODULE Spec2Model ----
(***************************************************************************)
(* mir2pnml_py: MIR text -> Petri net (PT-net).                            *)
(*                                                                         *)
(* The model follows the pipeline of mir2pnml.main:                        *)
(*   parse_mir (one step per function found)  ->  build_petri_net (one     *)
(*   step per function processed)  ->  write_pnml  ->  exit,               *)
(* and then lets the written net run under the PT-net firing rule.         *)
(*                                                                         *)
(* The MIR text is a sequence of lines.  Every regular expression of the   *)
(* parser is applied to one line, so a line is represented by what the     *)
(* expressions can see of it: its shape (field k) and the captured groups. *)
(* Texts end with a newline, so the slice text[m.end() : i - 1] of an      *)
(* unclosed body removes that newline only.                                *)
(* Ids of places, transitions and arcs are the strings the f-strings of    *)
(* pn_builder.py produce.                                                  *)
(***************************************************************************)
EXTENDS Integers, Sequences, FiniteSets, TLC

VARIABLES
    text,           \* the MIR text (sequence of lines), read by main
    entry_fn,       \* --entry-fn
    max_fns,        \* --max-fns: <<>> is None, <<n>> is n
    pc,             \* position of main: "parse", "build", "exit"
    pos,            \* parse_mir: index of the next line to search from
    functions,      \* parse_mir: list of MirFunction parsed so far
    error,          \* the exception main caught: "none" or "ParseError"
    fns_to_process, \* build_petri_net: the functions it walks
    next_fn,        \* build_petri_net: index of the next function to build
    builder,        \* build_petri_net: net, seen_places, seen_transitions, arc_id_counter
    exit_code,      \* status main returned: <<>> while running, else <<code>>
    marking,        \* tokens of the written net, per place id
    last_fired,     \* id of the transition fired last ("" before any)
    open_locks,     \* per mutex key: lock firings since the last unlock firing
    bind_log,       \* per parsed function: the table assignments made, in order
    rebuilt         \* <<>>, or <<what a second call of build_petri_net returned>>

vars == <<text, entry_fn, max_fns, pc, pos, functions, error, fns_to_process,
          next_fn, builder, exit_code, marking, last_fired, open_locks,
          bind_log, rebuilt>>

-----------------------------------------------------------------------------
(* Dictionaries (Python dict) as functions with a finite domain.           *)

EmptyDict == [x \in {} |-> ""]

Put(d, key, v) == [x \in (DOMAIN d) \cup {key} |-> IF x = key THEN v ELSE d[x]]

-----------------------------------------------------------------------------
(* Lines of MIR text.                                                      *)

Blank ==
    [k |-> "other", name |-> "", x |-> "", y |-> "", args |-> <<>>,
     n |-> 0, u |-> {}, ts |-> <<>>, c |-> "", cl |-> FALSE]

\* fn NAME(...) -> ... {
FnLine(nm) == [Blank EXCEPT !.k = "fn", !.name = nm]
\* bbN: {      or      bbN (cleanup): {
BBLine(id, cleanup) == [Blank EXCEPT !.k = "bb", !.n = id, !.cl = cleanup]
\* }
CloseLine == [Blank EXCEPT !.k = "close"]
\* let [mut] _N: T;
LetLine(l) == [Blank EXCEPT !.k = "let", !.x = l]
\* _i = &_j;
RefLine(i, j) == [Blank EXCEPT !.k = "ref", !.x = i, !.y = j]
\* goto -> bbN;
GotoLine(t) == [Blank EXCEPT !.k = "goto", !.n = t]
\* return;
ReturnLine == [Blank EXCEPT !.k = "return"]
\* drop(L) -> [return: bbN, unwind: ...];     u is {} or {bbM}
DropLine(l, t, unw) == [Blank EXCEPT !.k = "drop", !.x = l, !.n = t, !.u = unw]
\* switchInt(E) -> [.. bbA, .. bbB, ..];
SwitchLine(targets) == [Blank EXCEPT !.k = "switch", !.ts = targets]
\* [LHS =] CALLEE(ARGS) -> [return: bbN, unwind: ...];    lhs "" is no LHS
CallLine(lhs, callee, a, t, unw) ==
    [Blank EXCEPT !.k = "call", !.x = lhs, !.c = callee, !.args = a, !.n = t, !.u = unw]

\* One argument of a call: "move _N", "_N", "copy _N" or "const ..".
Arg(mode, l) == [mode |-> mode, loc |-> l]

\* terminator = None
NoTerminator == [Blank EXCEPT !.k = "none"]

-----------------------------------------------------------------------------
(* Callees: the substrings the parser and the builder test for.            *)

LockCallee == "Mutex::<i32>::lock"
UnwrapCallee == "Result::<MutexGuard<i32>>::unwrap"
UnwrapBlockCallee == "Result::<MutexGuard<Block>>::unwrap"
ExpectCallee == "Result::<MutexGuard<i32>>::expect"
LowerLockCallee == "sync::mutex::lock"
OtherCallee == "foo::bar"

\* "Mutex" in callee
HasMutex(callee) ==
    callee \in {LockCallee, UnwrapCallee, UnwrapBlockCallee, ExpectCallee}
\* "lock" in callee  ("Block" contains "lock")
HasLock(callee) == callee \in {LockCallee, UnwrapBlockCallee, LowerLockCallee}
\* "mutex::lock" in callee.lower()
HasMutexLockLower(callee) == callee = LowerLockCallee
\* "::unwrap" in callee
HasUnwrap(callee) == callee \in {UnwrapCallee, UnwrapBlockCallee}
\* "::expect" in callee
HasExpect(callee) == callee = ExpectCallee

IsLockShape(callee) ==
    (HasMutex(callee) /\ HasLock(callee)) \/ HasMutexLockLower(callee)

IsUnwrapShape(callee) == HasUnwrap(callee) \/ HasExpect(callee)

-----------------------------------------------------------------------------
(* mir_parser.py                                                           *)

\* _extract_first_local: the first argument of the form [move ]_N, "" if none
RECURSIVE ExtractFirstLocalFrom(_, _)
ExtractFirstLocalFrom(a, i) ==
    IF i > Len(a) THEN ""
    ELSE IF a[i].mode \in {"move", "plain"} THEN a[i].loc
    ELSE ExtractFirstLocalFrom(a, i + 1)

ExtractFirstLocal(a) == ExtractFirstLocalFrom(a, 1)

\* _resolve_mutex_key
ResolveMutexKey(l, ref_to_base) ==
    IF l \in DOMAIN ref_to_base THEN ref_to_base[l] ELSE l

\* The inner while loop of a block: collects block_lines and records the
\* reference assignments; stops before the next header or after a bare }.
RECURSIVE ScanBlock(_, _, _, _)
ScanBlock(lines, j, block_lines, ref_to_base) ==
    IF j > Len(lines) THEN [j |-> j, block_lines |-> block_lines, ref |-> ref_to_base]
    ELSE IF lines[j].k = "bb" THEN [j |-> j, block_lines |-> block_lines, ref |-> ref_to_base]
    ELSE IF lines[j].k = "close" THEN [j |-> j + 1, block_lines |-> block_lines, ref |-> ref_to_base]
    ELSE ScanBlock(lines, j + 1, Append(block_lines, lines[j]),
                   IF lines[j].k = "ref"
                   THEN Put(ref_to_base, lines[j].x, lines[j].y)
                   ELSE ref_to_base)

IsTerminatorLine(ln) == ln.k \in {"goto", "return", "drop", "switch", "call"}

\* for bl in reversed(block_lines): the last line that matches a pattern
FindTerminator(block_lines) ==
    LET idx == {i \in 1..Len(block_lines) : IsTerminatorLine(block_lines[i])}
    IN  IF idx = {} THEN NoTerminator
        ELSE block_lines[CHOOSE i \in idx : \A q \in idx : q <= i]

\* The assignment guard_to_mutex_key[lhs] = .. the adopted terminator makes:
\* <<>> when it makes none, else <<[key, value]>>.
GuardBinding(term, ref_to_base, guard) ==
    IF term.k # "call" THEN <<>>
    ELSE IF IsLockShape(term.c)
    THEN LET first_arg == ExtractFirstLocal(term.args)
         IN  IF first_arg # "" /\ term.x # ""
             THEN <<[key |-> term.x, value |-> ResolveMutexKey(first_arg, ref_to_base)]>>
             ELSE <<>>
    ELSE IF IsUnwrapShape(term.c) /\ term.x # ""
    THEN LET first_arg == ExtractFirstLocal(term.args)
         IN  IF first_arg # "" /\ first_arg \in DOMAIN guard
             THEN <<[key |-> term.x, value |-> guard[first_arg]]>>
             ELSE <<>>
    ELSE <<>>

\* Guard binding and unwrap/expect propagation at the adopted terminator.
BindGuard(term, ref_to_base, guard) ==
    LET b == GuardBinding(term, ref_to_base, guard)
    IN  IF b = <<>> THEN guard ELSE Put(guard, b[1].key, b[1].value)

\* The assignments ref_to_base[i] = j the scan of a block makes, in order.
RECURSIVE RefBindings(_, _)
RefBindings(block_lines, i) ==
    IF i > Len(block_lines) THEN <<>>
    ELSE (IF block_lines[i].k = "ref"
          THEN <<[key |-> block_lines[i].x, value |-> block_lines[i].y]>>
          ELSE <<>>) \o RefBindings(block_lines, i + 1)

\* The outer while loop of _parse_function_body, from line i of the body.
\* st holds locals, ref_to_base, basic_blocks, guard_to_mutex_key, seen_bb, and
\* the assignments made to the two tables so far (ref_log, guard_log).
RECURSIVE ParseLines(_, _, _, _)
ParseLines(lines, i, fn_start_line, st) ==
    IF i > Len(lines) THEN st
    ELSE IF lines[i].k = "scope" THEN ParseLines(lines, i + 1, fn_start_line, st)
    ELSE IF lines[i].k = "let" /\ ~st.seen_bb
    THEN ParseLines(lines, i + 1, fn_start_line,
                    [st EXCEPT !.locals = Append(@, lines[i].x)])
    ELSE IF lines[i].k = "bb"
    THEN LET sc == ScanBlock(lines, i + 1, <<>>, st.ref_to_base)
             term == FindTerminator(sc.block_lines)
             bb == [bb_id |-> lines[i].n,
                    terminator |-> term,
                    is_cleanup |-> lines[i].cl,
                    line_start |-> fn_start_line + i + 1]
         IN  ParseLines(lines, sc.j, fn_start_line,
                 [st EXCEPT !.seen_bb = TRUE,
                            !.ref_to_base = sc.ref,
                            !.guard_to_mutex_key = BindGuard(term, sc.ref, @),
                            !.basic_blocks = Append(@, bb),
                            !.ref_log = @ \o RefBindings(sc.block_lines, 1),
                            !.guard_log =
                                @ \o GuardBinding(term, sc.ref, st.guard_to_mutex_key)])
    ELSE ParseLines(lines, i + 1, fn_start_line, st)

\* The state of _parse_function_body before its loop.
ParseStart ==
    [locals |-> <<>>, ref_to_base |-> EmptyDict, basic_blocks |-> <<>>,
     guard_to_mutex_key |-> EmptyDict, seen_bb |-> FALSE,
     ref_log |-> <<>>, guard_log |-> <<>>]

\* The table assignments _parse_function_body makes on this body, in order.
ParseFunctionLog(body, fn_start_line) ==
    LET st == ParseLines(body, 1, fn_start_line, ParseStart)
    IN  [ref |-> st.ref_log, guard |-> st.guard_log]

\* _parse_function_body
ParseFunctionBody(fn_name, body, fn_start_line) ==
    LET st == ParseLines(body, 1, fn_start_line, ParseStart)
    IN  [name |-> fn_name,
         locals |-> st.locals,
         basic_blocks |-> st.basic_blocks,
         guard_to_mutex_key |-> st.guard_to_mutex_key,
         ref_to_base |-> st.ref_to_base]

\* fn_pattern.search(text, pos): the first header line at or after p, 0 if none
FindHeader(t, p) ==
    LET hs == {i \in p..Len(t) : t[i].k = "fn"}
    IN  IF hs = {} THEN 0 ELSE CHOOSE i \in hs : \A q \in hs : i <= q

\* Braces a line adds to the depth count.
BraceDelta(ln) ==
    IF ln.k \in {"fn", "bb"} THEN 1 ELSE IF ln.k = "close" THEN 0 - 1 ELSE 0

\* The brace-matching loop: the line holding the matching }, or Len(t) + 1
\* when the text ends first (the loop then stops on i < len(text)).
RECURSIVE MatchBrace(_, _, _)
MatchBrace(t, i, depth) ==
    IF i > Len(t) THEN i
    ELSE IF depth + BraceDelta(t[i]) = 0 THEN i
    ELSE MatchBrace(t, i + 1, depth + BraceDelta(t[i]))

\* The body is brace-balanced when the matching } was found.
Balanced(t, h) == MatchBrace(t, h + 1, 1) <= Len(t)

-----------------------------------------------------------------------------
(* pn_builder.py                                                           *)

PlaceEntryId(f) == "p_" \o f \o "_entry"
PlaceExitId(f) == "p_" \o f \o "_exit"
PlaceBBId(f, b) == "p_" \o f \o "_bb" \o ToString(b)
MutexFreeId(key) == "p_mutex_" \o key \o "_free"
MutexHeldId(key) == "p_mutex_" \o key \o "_held"
TransStartId(f) == "t_" \o f \o "_start"
TransEdgeId(f, b, t) == "t_" \o f \o "_bb" \o ToString(b) \o "_to_bb" \o ToString(t)
TransReturnId(f, b) == "t_" \o f \o "_bb" \o ToString(b) \o "_return"
ArcId(n) == "arc_" \o ToString(n)

Place(id, kind, init_tokens) == [id |-> id, kind |-> kind, init_tokens |-> init_tokens]

\* op "" is None
Transition(id, kind, op) == [id |-> id, kind |-> kind, op |-> op]

\* net = PetriNet(), seen_places = set(), seen_transitions = set(), arc_id_counter = [0]
NewBuilder ==
    [places |-> <<>>, transitions |-> <<>>, arcs |-> <<>>,
     initial_marking |-> EmptyDict, warnings |-> <<>>,
     seen_places |-> {}, seen_transitions |-> {}, arc_id_counter |-> 0]

\* AddPlace without the seen_places test.
AddPlace_NoSeenTest(B, p) ==
    [B EXCEPT !.seen_places = @ \cup {p.id},
              !.places = Append(@, p),
              !.initial_marking =
                  IF p.init_tokens > 0 THEN Put(@, p.id, p.init_tokens) ELSE @]

AddPlace(B, p) ==
    IF p.id \notin B.seen_places
    THEN [B EXCEPT !.seen_places = @ \cup {p.id},
                   !.places = Append(@, p),
                   !.initial_marking =
                       IF p.init_tokens > 0 THEN Put(@, p.id, p.init_tokens) ELSE @]
    ELSE B

AddTransition(B, t) ==
    IF t.id \notin B.seen_transitions
    THEN [B EXCEPT !.seen_transitions = @ \cup {t.id},
                   !.transitions = Append(@, t)]
    ELSE B

AddArc(B, source, target, weight) ==
    [B EXCEPT !.arc_id_counter = @ + 1,
              !.arcs = Append(@, [id |-> ArcId(B.arc_id_counter + 1),
                                  source |-> source, target |-> target,
                                  weight |-> weight])]

AddWarning(B, f, bb, reason, callee) ==
    [B EXCEPT !.warnings = Append(@, [function |-> f,
                                      basic_block |-> "bb" \o ToString(bb.bb_id),
                                      line |-> bb.line_start,
                                      reason |-> reason,
                                      callee |-> callee])]

\* _ensure_mutex_places
EnsureMutexPlaces(B, key) ==
    AddPlace(AddPlace(B, Place(MutexFreeId(key), "mutex_free", 1)),
             Place(MutexHeldId(key), "mutex_held", 0))

\* bb_to_place after the first loop over fn.basic_blocks
BBToPlace(fn) ==
    LET ids == {fn.basic_blocks[i].bb_id : i \in
                  {q \in 1..Len(fn.basic_blocks) : ~fn.basic_blocks[q].is_cleanup}}
    IN  [b \in ids |-> PlaceBBId(fn.name, b)]

\* The first loop: one place per non-cleanup block, in source order.
RECURSIVE AddBlockPlaces(_, _, _)
AddBlockPlaces(B, fn, i) ==
    IF i > Len(fn.basic_blocks) THEN B
    ELSE IF fn.basic_blocks[i].is_cleanup THEN AddBlockPlaces(B, fn, i + 1)
    ELSE AddBlockPlaces(
             AddPlace(B, Place(PlaceBBId(fn.name, fn.basic_blocks[i].bb_id), "cfg", 0)),
             fn, i + 1)

\* AddStart whose input arc leaves the entry place of the entry function.
AddStart_FromEntryFn(B, fn) ==
    LET nc == {i \in 1..Len(fn.basic_blocks) : ~fn.basic_blocks[i].is_cleanup}
    IN  IF nc = {} THEN B
        ELSE LET first == CHOOSE i \in nc : \A q \in nc : i <= q
                 tid == TransStartId(fn.name)
             IN  AddArc(AddArc(AddTransition(B, Transition(tid, "cfg", "")),
                               PlaceEntryId(entry_fn), tid, 1),
                        tid, BBToPlace(fn)[fn.basic_blocks[first].bb_id], 1)

\* Start transition: entry -> first non-cleanup block
AddStart(B, fn) ==
    LET nc == {i \in 1..Len(fn.basic_blocks) : ~fn.basic_blocks[i].is_cleanup}
    IN  IF nc = {} THEN B
        ELSE LET first == CHOOSE i \in nc : \A q \in nc : i <= q
                 tid == TransStartId(fn.name)
             IN  AddArc(AddArc(AddTransition(B, Transition(tid, "cfg", "")),
                               PlaceEntryId(fn.name), tid, 1),
                        tid, BBToPlace(fn)[fn.basic_blocks[first].bb_id], 1)

\* Targets with the unwind target of a drop or call added as a successor.
Targets_WithUnwind(term) ==
    LET unwind == IF term.u = {} THEN <<>> ELSE <<CHOOSE m \in term.u : TRUE>>
    IN  CASE term.k = "goto" -> <<term.n>>
          [] term.k = "return" -> <<>>
          [] term.k = "switch" -> term.ts
          [] term.k = "drop" -> <<term.n>> \o unwind
          [] term.k = "call" -> <<term.n>> \o unwind
          [] OTHER -> <<>>

\* targets of a terminator
Targets(term) ==
    CASE term.k = "goto" -> <<term.n>>
      [] term.k = "return" -> <<>>
      [] term.k = "switch" -> term.ts
      [] term.k = "drop" -> <<term.n>>
      [] term.k = "call" -> <<term.n>>
      [] OTHER -> <<>>

\* mutex_lock_key ("" is None)
LockKey(term, fn) ==
    IF term.k = "call" /\ IsLockShape(term.c) /\ ExtractFirstLocal(term.args) # ""
    THEN ResolveMutexKey(ExtractFirstLocal(term.args), fn.ref_to_base)
    ELSE ""

\* mutex_unlock_key ("" is None)
UnlockKey(term, fn) ==
    IF term.k = "drop" /\ term.x \in DOMAIN fn.guard_to_mutex_key
    THEN fn.guard_to_mutex_key[term.x]
    ELSE ""

\* The warning the terminator dispatch appends, if any.
WarnTerminator(B, fn, bb) ==
    LET term == bb.terminator
    IN  IF term.k = "drop" /\ term.x \notin DOMAIN fn.guard_to_mutex_key
        THEN AddWarning(B, fn.name, bb,
                        "drop(" \o term.x \o ") not in guard binding table", "drop")
        ELSE IF term.k = "call" /\ IsLockShape(term.c) /\ ExtractFirstLocal(term.args) = ""
        THEN AddWarning(B, fn.name, bb, "Mutex::lock call but no local in args", term.c)
        ELSE IF term.k = "call" /\ ~IsLockShape(term.c)
        THEN AddWarning(B, fn.name, bb, "unrecognized call, treated as CFG edge", term.c)
        ELSE B

\* AttachLock without the arc p_free -> t.
AttachLock_NoFreeArc(B, tid, key) ==
    IF key # ""
    THEN AddArc(EnsureMutexPlaces(B, key), tid, MutexHeldId(key), 1)
    ELSE B

\* Mutex: attach resource constraints to this transition
AttachLock(B, tid, key) ==
    IF key # ""
    THEN AddArc(AddArc(EnsureMutexPlaces(B, key), MutexFreeId(key), tid, 1),
                tid, MutexHeldId(key), 1)
    ELSE B

\* AttachUnlock without the arc p_held -> t.
AttachUnlock_NoHeldArc(B, tid, key) ==
    IF key # ""
    THEN AddArc(EnsureMutexPlaces(B, key), tid, MutexFreeId(key), 1)
    ELSE B

AttachUnlock(B, tid, key) ==
    IF key # ""
    THEN AddArc(AddArc(EnsureMutexPlaces(B, key), MutexHeldId(key), tid, 1),
                tid, MutexFreeId(key), 1)
    ELSE B

\* AddEdge without the "if dst_place" test.
AddEdge_NoTargetTest(B, fn, bb, target_bb, lock_key, unlock_key) ==
    LET f == fn.name
        tid == TransEdgeId(f, bb.bb_id, target_bb)
        kind == IF lock_key # "" THEN "lock"
                ELSE IF unlock_key # "" THEN "unlock" ELSE "cfg"
        op == IF lock_key # "" THEN lock_key ELSE unlock_key
        B1 == AddTransition(B, Transition(tid, kind, op))
        B2 == AddArc(B1, PlaceBBId(f, bb.bb_id), tid, 1)
        B3 == AddArc(B2, tid, PlaceBBId(f, target_bb), 1)
    IN  AttachUnlock(AttachLock(B3, tid, lock_key), tid, unlock_key)

\* One iteration of "for target_bb in targets"
AddEdge(B, fn, bb, target_bb, lock_key, unlock_key) ==
    LET f == fn.name
        tid == TransEdgeId(f, bb.bb_id, target_bb)
        kind == IF lock_key # "" THEN "lock"
                ELSE IF unlock_key # "" THEN "unlock" ELSE "cfg"
        op == IF lock_key # "" THEN lock_key ELSE unlock_key
        B1 == AddTransition(B, Transition(tid, kind, op))
        B2 == AddArc(B1, PlaceBBId(f, bb.bb_id), tid, 1)
        B3 == IF target_bb \in DOMAIN BBToPlace(fn)
              THEN AddArc(B2, tid, BBToPlace(fn)[target_bb], 1)
              ELSE B2
    IN  AttachUnlock(AttachLock(B3, tid, lock_key), tid, unlock_key)

RECURSIVE AddEdges(_, _, _, _, _, _, _)
AddEdges(B, fn, bb, targets, i, lock_key, unlock_key) ==
    IF i > Len(targets) THEN B
    ELSE AddEdges(AddEdge(B, fn, bb, targets[i], lock_key, unlock_key),
                  fn, bb, targets, i + 1, lock_key, unlock_key)

\* AddReturn without the arc t_return -> p_exit.
AddReturn_NoExitArc(B, fn, bb) ==
    IF bb.terminator.k = "return"
    THEN LET tid == TransReturnId(fn.name, bb.bb_id)
         IN  AddArc(AddTransition(B, Transition(tid, "cfg", "")),
                    PlaceBBId(fn.name, bb.bb_id), tid, 1)
    ELSE B

\* Return: bb -> exit
AddReturn(B, fn, bb) ==
    IF bb.terminator.k = "return"
    THEN LET tid == TransReturnId(fn.name, bb.bb_id)
         IN  AddArc(AddArc(AddTransition(B, Transition(tid, "cfg", "")),
                           PlaceBBId(fn.name, bb.bb_id), tid, 1),
                    tid, PlaceExitId(fn.name), 1)
    ELSE B

\* BuildBlock that takes a missing terminator for a return, without warning.
BuildBlock_NoTerminatorAsReturn(B, fn, bb) ==
    IF bb.is_cleanup THEN B
    ELSE IF bb.terminator.k = "none"
    THEN AddReturn(B, fn, [bb EXCEPT !.terminator = ReturnLine])
    ELSE AddReturn(
             AddEdges(WarnTerminator(B, fn, bb), fn, bb, Targets(bb.terminator), 1,
                      LockKey(bb.terminator, fn), UnlockKey(bb.terminator, fn)),
             fn, bb)

\* One iteration of the second loop over fn.basic_blocks
BuildBlock(B, fn, bb) ==
    IF bb.is_cleanup THEN B
    ELSE IF bb.terminator.k = "none"
    THEN AddWarning(B, fn.name, bb, "no terminator found", "")
    ELSE AddReturn(
             AddEdges(WarnTerminator(B, fn, bb), fn, bb, Targets(bb.terminator), 1,
                      LockKey(bb.terminator, fn), UnlockKey(bb.terminator, fn)),
             fn, bb)

RECURSIVE BuildBlocks(_, _, _)
BuildBlocks(B, fn, i) ==
    IF i > Len(fn.basic_blocks) THEN B
    ELSE BuildBlocks(BuildBlock(B, fn, fn.basic_blocks[i]), fn, i + 1)

\* _build_function_net with init_tokens = 1 on every entry place.
BuildFunctionNet_AllEntriesMarked(B, fn, entry) ==
    LET f == fn.name
        B1 == AddPlace(B, Place(PlaceEntryId(f), "cfg", 1))
        B2 == AddPlace(B1, Place(PlaceExitId(f), "cfg", 0))
        B3 == AddBlockPlaces(B2, fn, 1)
        B4 == AddStart(B3, fn)
    IN  BuildBlocks(B4, fn, 1)

\* _build_function_net
BuildFunctionNet(B, fn, entry) ==
    LET f == fn.name
        B1 == AddPlace(B, Place(PlaceEntryId(f), "cfg", IF f = entry THEN 1 ELSE 0))
        B2 == AddPlace(B1, Place(PlaceExitId(f), "cfg", 0))
        B3 == AddBlockPlaces(B2, fn, 1)
        B4 == AddStart(B3, fn)
    IN  BuildBlocks(B4, fn, 1)

\* functions[:max_fns]
SliceFns(fns, mx) ==
    IF mx = <<>> THEN fns
    ELSE IF mx[1] >= Len(fns) THEN fns
    ELSE SubSeq(fns, 1, mx[1])

\* for fn in fns_to_process: _build_function_net(...)
RECURSIVE BuildAll(_, _, _, _)
BuildAll(B, fns, i, entry) ==
    IF i > Len(fns) THEN B
    ELSE BuildAll(BuildFunctionNet(B, fns[i], entry), fns, i + 1, entry)

\* build_petri_net with seen_places and seen_transitions kept from the call
\* before (as module-level sets would be).
BuildPetriNet_SeenSetsKept(fns, entry, mx) ==
    BuildAll([NewBuilder EXCEPT !.seen_places = builder.seen_places,
                                !.seen_transitions = builder.seen_transitions],
             SliceFns(fns, mx), 1, entry)

\* build_petri_net, one whole call: its net, seen sets and arc counter are
\* created in the call.
BuildPetriNet(fns, entry, mx) ==
    BuildAll(NewBuilder, SliceFns(fns, mx), 1, entry)

-----------------------------------------------------------------------------
(* pnml_writer.py and the PT-net firing rule on the written net.           *)

\* write_pnml: a place carries <initialMarking> when init_tokens > 0
InitialMarking(B) ==
    [p \in {B.places[i].id : i \in 1..Len(B.places)} |->
        LET i == CHOOSE q \in 1..Len(B.places) : B.places[q].id = p
        IN  IF B.places[i].init_tokens > 0 THEN B.places[i].init_tokens ELSE 0]

\* Sum of the weights of the arcs from source to target (parallel arcs add up).
RECURSIVE WeightFrom(_, _, _, _)
WeightFrom(arcs, i, source, target) ==
    IF i > Len(arcs) THEN 0
    ELSE (IF arcs[i].source = source /\ arcs[i].target = target
          THEN arcs[i].weight ELSE 0)
         + WeightFrom(arcs, i + 1, source, target)

Weight(B, source, target) == WeightFrom(B.arcs, 1, source, target)

PlaceIds(B) == {B.places[i].id : i \in 1..Len(B.places)}
TransitionIds(B) == {B.transitions[i].id : i \in 1..Len(B.transitions)}

TransitionById(B, tid) ==
    B.transitions[CHOOSE i \in 1..Len(B.transitions) : B.transitions[i].id = tid]

\* The mutex keys of the net: the op of some transition.
MutexKeys(B) == {B.transitions[i].op : i \in 1..Len(B.transitions)} \ {""}

Enabled(B, m, tid) == \A p \in DOMAIN m : m[p] >= Weight(B, p, tid)

FireMarking(B, m, tid) ==
    [p \in DOMAIN m |-> m[p] - Weight(B, p, tid) + Weight(B, tid, p)]

-----------------------------------------------------------------------------
(* Inputs.                                                                 *)

MaxBlocks == 2      \* basic blocks in one text of the general family

FnNames == {"main", "f"}
EntryFns == {"main"}

Block(id, cleanup, lines) == <<BBLine(id, cleanup)>> \o lines \o <<CloseLine>>
Function(nm, body) == <<FnLine(nm)>> \o body \o <<CloseLine>>

LockLine(lhs, a, t) == CallLine(lhs, LockCallee, <<Arg("move", a)>>, t, {2})

\* The blocks of the general family: every terminator kind, the lock and the
\* drop on two mutexes, loops, duplicate ids, a duplicate switch target, a
\* target that does not exist (bb2) and a cleanup block.
BlockChoices ==
    { Block(0, FALSE, <<LockLine("_2", "_1", 1)>>),
      Block(1, FALSE, <<LockLine("_2", "_1", 1)>>),
      Block(1, TRUE,  <<LockLine("_2", "_1", 0)>>),
      Block(1, FALSE, <<DropLine("_2", 0, {})>>),
      Block(0, FALSE, <<DropLine("_2", 1, {2})>>),
      Block(0, FALSE, <<LockLine("_4", "_3", 1)>>),
      Block(1, FALSE, <<DropLine("_4", 0, {0})>>),
      Block(0, FALSE, <<GotoLine(1)>>),
      Block(1, FALSE, <<ReturnLine>>),
      Block(0, FALSE, <<SwitchLine(<<1, 1, 2>>)>>),
      Block(0, FALSE, <<Blank>>),
      Block(1, FALSE, <<CallLine("", OtherCallee, <<>>, 0, {})>>) }

\* Bodies of exactly n blocks.
RECURSIVE Bodies(_)
Bodies(n) ==
    IF n = 0 THEN {<<>>}
    ELSE {b \o rest : b \in BlockChoices, rest \in Bodies(n - 1)}

\* The names of the functions of a text, in source order: the entry function
\* alone, without it, before and after another function, and twice.
FnNameLists ==
    { <<"main">>, <<"f">>, <<"main", "f">>, <<"f", "main">>, <<"main", "main">> }

\* Texts whose functions are named by the list names (from index i on) and
\* hold at most nb blocks in all.
RECURSIVE Texts(_, _, _)
Texts(names, i, nb) ==
    IF i > Len(names) THEN {<<>>}
    ELSE UNION { {Function(names[i], body) \o rest :
                     body \in Bodies(q), rest \in Texts(names, i + 1, nb - q)}
                 : q \in 0..nb }

GeneralTexts == {<<>>} \cup UNION {Texts(names, 1, MaxBlocks) : names \in FnNameLists}

NumHeaders(t) == Cardinality({i \in 1..Len(t) : t[i].k = "fn"})

MaxFnsChoices(t) == {<<>>} \cup (IF NumHeaders(t) >= 2 THEN {<<1>>} ELSE {})

\* The chain family: one function whose blocks are g1 = lock(a), g2 =
\* unwrap/expect(g1) and drop(g2), in any source order; a is the mutex _1 or
\* a reference _3 with the statement _3 = &_1 at the head of one of the blocks.
ChainOrders ==
    { <<"L", "U", "D">>, <<"L", "D", "U">>, <<"U", "L", "D">>,
      <<"U", "D", "L">>, <<"D", "L", "U">>, <<"D", "U", "L">> }

ChainRefAt == {"none", "L", "U", "D"}

ChainBlock(which, ref_at, mode, callee, cleanup) ==
    LET stmts == IF ref_at = which THEN <<RefLine("_3", "_1")>> ELSE <<>>
        a == IF ref_at = "none" THEN "_1" ELSE "_3"
    IN  CASE which = "L" ->
               Block(0, FALSE, stmts \o <<CallLine("_2", LockCallee, <<Arg(mode, a)>>, 1, {})>>)
          [] which = "U" ->
               Block(1, FALSE, stmts \o <<CallLine("_5", callee, <<Arg("move", "_2")>>, 2, {})>>)
          [] which = "D" ->
               Block(2, cleanup, stmts \o <<DropLine("_5", 3, {})>>)

ChainText(order, ref_at, mode, callee, cleanup) ==
    Function("main",
        ChainBlock(order[1], ref_at, mode, callee, cleanup)
        \o ChainBlock(order[2], ref_at, mode, callee, cleanup)
        \o ChainBlock(order[3], ref_at, mode, callee, cleanup))

ChainTexts ==
    { ChainText(order, ref_at, mode, callee, cleanup) :
        order \in ChainOrders, ref_at \in ChainRefAt, mode \in {"move", "copy"},
        callee \in {UnwrapCallee, UnwrapBlockCallee, ExpectCallee},
        cleanup \in BOOLEAN }

\* The truncated family: a text cut after any of its lines.
TruncBase ==
    ChainText(<<"L", "U", "D">>, "none", "move", UnwrapCallee, FALSE)
    \o Function("f", Block(0, FALSE, <<ReturnLine>>))

TruncatedTexts == {SubSeq(TruncBase, 1, n) : n \in 1..Len(TruncBase)}

\* The shared-edge family: two blocks of one function with the same id and
\* the same return target, one a lock call and one a call of another callee.
SharedEdgeTexts ==
    { Function("main",
          Block(0, FALSE, <<LockLine("_2", "_1", 1)>>)
          \o Block(0, FALSE, <<CallLine("", OtherCallee, <<>>, 1, {})>>)),
      Function("main",
          Block(0, FALSE, <<CallLine("", OtherCallee, <<>>, 1, {})>>)
          \o Block(0, FALSE, <<LockLine("_2", "_1", 1)>>)) }

\* The rebinding family: a local assigned twice, with different values: a
\* reference in one block, a reference in two blocks, a guard in two blocks.
RebindTexts ==
    { Function("main",
          Block(0, FALSE, <<RefLine("_3", "_1"), RefLine("_3", "_4"),
                            LockLine("_2", "_3", 1)>>)
          \o Block(1, FALSE, <<DropLine("_2", 2, {})>>)),
      Function("main",
          Block(0, FALSE, <<RefLine("_3", "_1"), LockLine("_2", "_3", 1)>>)
          \o Block(1, FALSE, <<RefLine("_3", "_4"), DropLine("_2", 2, {})>>)),
      Function("main",
          Block(0, FALSE, <<LockLine("_2", "_1", 1)>>)
          \o Block(1, FALSE, <<LockLine("_2", "_4", 2)>>)
          \o Block(2, FALSE, <<DropLine("_2", 3, {})>>)) }

InputTexts ==
    GeneralTexts \cup ChainTexts \cup TruncatedTexts \cup SharedEdgeTexts
    \cup RebindTexts

-----------------------------------------------------------------------------
(* The pipeline.                                                           *)

Init ==
    /\ text \in InputTexts
    /\ entry_fn \in EntryFns
    /\ max_fns \in MaxFnsChoices(text)
    /\ pc = "parse"
    /\ pos = 1
    /\ functions = <<>>
    /\ error = "none"
    /\ fns_to_process = <<>>
    /\ next_fn = 1
    /\ builder = NewBuilder
    /\ exit_code = <<>>
    /\ marking = EmptyDict
    /\ last_fired = ""
    /\ open_locks = EmptyDict
    /\ bind_log = <<>>
    /\ rebuilt = <<>>

\* parse_mir, one iteration of "while True" that finds a header
ParseFunction ==
    /\ pc = "parse"
    /\ FindHeader(text, pos) # 0
    /\ LET h == FindHeader(text, pos)
           e == MatchBrace(text, h + 1, 1)
       IN  /\ functions' = Append(functions,
                               ParseFunctionBody(text[h].name, SubSeq(text, h + 1, e - 1), h))
           /\ bind_log' = Append(bind_log,
                                 ParseFunctionLog(SubSeq(text, h + 1, e - 1), h))
           /\ pos' = IF e > Len(text) THEN Len(text) + 1 ELSE e + 1
    /\ UNCHANGED <<text, entry_fn, max_fns, pc, error, fns_to_process, next_fn,
                   builder, exit_code, marking, last_fired, open_locks, rebuilt>>

\* parse_mir returns; main rejects an empty list, else enters build_petri_net
ParseEnd ==
    /\ pc = "parse"
    /\ FindHeader(text, pos) = 0
    /\ IF functions = <<>>
       THEN /\ pc' = "exit"
            /\ exit_code' = <<1>>
            /\ UNCHANGED <<fns_to_process, builder>>
       ELSE /\ pc' = "build"
            /\ builder' = NewBuilder
            /\ fns_to_process' = SliceFns(functions, max_fns)
            /\ UNCHANGED exit_code
    /\ UNCHANGED <<text, entry_fn, max_fns, pos, functions, error, next_fn,
                   marking, last_fired, open_locks, bind_log, rebuilt>>

\* build_petri_net, one iteration of "for fn in fns_to_process"
BuildFunction ==
    /\ pc = "build"
    /\ next_fn <= Len(fns_to_process)
    /\ builder' = BuildFunctionNet(builder, fns_to_process[next_fn], entry_fn)
    /\ next_fn' = next_fn + 1
    /\ UNCHANGED <<text, entry_fn, max_fns, pc, pos, functions, error, fns_to_process,
                   exit_code, marking, last_fired, open_locks, bind_log, rebuilt>>

\* build_petri_net returns; main writes the PNML file (or fails to) and exits
WritePnml ==
    /\ pc = "build"
    /\ next_fn > Len(fns_to_process)
    /\ pc' = "exit"
    /\ \E ok \in BOOLEAN :
          IF ok
          THEN /\ exit_code' = <<0>>
               /\ marking' = InitialMarking(builder)
               /\ open_locks' = [key \in MutexKeys(builder) |-> 0]
          ELSE /\ exit_code' = <<1>>
               /\ UNCHANGED <<marking, open_locks>>
    /\ UNCHANGED <<text, entry_fn, max_fns, pos, functions, error, fns_to_process,
                   next_fn, builder, last_fired, bind_log, rebuilt>>

\* One firing of the written net.
Fire ==
    /\ pc = "exit"
    /\ exit_code = <<0>>
    /\ \E tid \in TransitionIds(builder) :
          /\ Enabled(builder, marking, tid)
          /\ marking' = FireMarking(builder, marking, tid)
          /\ last_fired' = tid
          /\ LET t == TransitionById(builder, tid)
             IN  open_locks' =
                    IF t.kind = "lock" THEN [open_locks EXCEPT ![t.op] = @ + 1]
                    ELSE IF t.kind = "unlock" THEN [open_locks EXCEPT ![t.op] = 0]
                    ELSE open_locks
    /\ UNCHANGED <<text, entry_fn, max_fns, pc, pos, functions, error, fns_to_process,
                   next_fn, builder, exit_code, bind_log, rebuilt>>

Next == ParseFunction \/ ParseEnd \/ BuildFunction \/ WritePnml \/ Fire

Spec == Init /\ [][Next]_vars

\* A caller that calls build_petri_net a second time with the same arguments,
\* after the first call has returned.
BuildAgain ==
    /\ pc = "build"
    /\ next_fn > Len(fns_to_process)
    /\ rebuilt = <<>>
    /\ rebuilt' = <<BuildPetriNet(functions, entry_fn, max_fns)>>
    /\ UNCHANGED <<text, entry_fn, max_fns, pc, pos, functions, error, fns_to_process,
                   next_fn, builder, exit_code, marking, last_fired, open_locks,
                   bind_log>>

NextBuildTwice == ParseFunction \/ ParseEnd \/ BuildFunction \/ BuildAgain

SpecBuildTwice == Init /\ [][NextBuildTwice]_vars

-----------------------------------------------------------------------------
(* Properties.                                                             *)

Locals == {"_1", "_2", "_3", "_4", "_5"}

\* build_petri_net has returned its net.
NetBuilt ==
    \/ pc = "build" /\ next_fn > Len(fns_to_process)
    \/ pc = "exit" /\ functions # <<>>

\* The written net is running.
Running == pc = "exit" /\ exit_code = <<0>>

\* Number of arcs (not their weights) from source to target.
ArcCount(B, source, target) ==
    Cardinality({i \in 1..Len(B.arcs) :
                    B.arcs[i].source = source /\ B.arcs[i].target = target})

InDegree(B, id) == Cardinality({i \in 1..Len(B.arcs) : B.arcs[i].target = id})
OutDegree(B, id) == Cardinality({i \in 1..Len(B.arcs) : B.arcs[i].source = id})

PlacesWithId(B, id) == {i \in 1..Len(B.places) : B.places[i].id = id}

\* C1: in every marking the written net reaches, for every mutex key whose
\* free and held places are in the net, the tokens on the two places sum to 1.
C1_MutexTokenConservation ==
    Running =>
        \A key \in Locals :
            (MutexFreeId(key) \in DOMAIN marking /\ MutexHeldId(key) \in DOMAIN marking)
            => marking[MutexFreeId(key)] + marking[MutexHeldId(key)] = 1

\* A lock has fired and an unlock after it: the token went to held and back.
C1_Witness ==
    /\ Running
    /\ last_fired # ""
    /\ TransitionById(builder, last_fired).kind = "unlock"
    /\ marking[MutexFreeId(TransitionById(builder, last_fired).op)] = 1

\* C2: on every mutex key, at most one lock transition fires before an
\* unlock transition on that key fires.
C2_OneLockBeforeUnlock ==
    \A key \in DOMAIN open_locks : open_locks[key] <= 1

\* A lock on the key has fired, control stands again before a lock transition
\* on the same key, and that transition is not enabled.
C2_Witness ==
    /\ Running
    /\ \E i \in 1..Len(builder.transitions) :
          LET t == builder.transitions[i]
          IN  /\ t.kind = "lock"
              /\ open_locks[t.op] = 1
              /\ marking[MutexHeldId(t.op)] = 1
              /\ \A p \in DOMAIN marking :
                    builder.places[CHOOSE q \in PlacesWithId(builder, p) : TRUE].kind = "cfg"
                    => marking[p] >= Weight(builder, p, t.id)
              /\ ~Enabled(builder, marking, t.id)

\* C4: for every mutex key that is the op of a transition of the built net,
\* the net holds exactly one place p_mutex_K_free with 1 initial token and
\* exactly one place p_mutex_K_held with 0; initial_marking maps the free
\* place to 1 and has no entry for the held place.
C4_MutexPlacesOnce ==
    NetBuilt =>
        \A key \in MutexKeys(builder) :
            /\ Cardinality(PlacesWithId(builder, MutexFreeId(key))) = 1
            /\ Cardinality(PlacesWithId(builder, MutexHeldId(key))) = 1
            /\ \A i \in PlacesWithId(builder, MutexFreeId(key)) :
                  builder.places[i].init_tokens = 1 /\ builder.places[i].kind = "mutex_free"
            /\ \A i \in PlacesWithId(builder, MutexHeldId(key)) :
                  builder.places[i].init_tokens = 0 /\ builder.places[i].kind = "mutex_held"
            /\ MutexFreeId(key) \in DOMAIN builder.initial_marking
            /\ builder.initial_marking[MutexFreeId(key)] = 1
            /\ MutexHeldId(key) \notin DOMAIN builder.initial_marking

\* Two functions were processed and both have a transition on the same key.
C4_Witness ==
    /\ NetBuilt
    /\ \E key \in MutexKeys(builder) :
          \E i, j \in 1..Len(builder.transitions) :
              /\ builder.transitions[i].op = key
              /\ builder.transitions[j].op = key
              /\ builder.transitions[i].id = TransEdgeId("main", 0, 1)
              /\ builder.transitions[j].id = TransEdgeId("f", 1, 1)

MutexPlaceIds(B) ==
    {B.places[i].id : i \in {q \in 1..Len(B.places) : B.places[q].kind # "cfg"}}

\* The only arcs between t and the mutex places are one arc from p_in to t
\* and one arc from t to p_out.
OnlyMutexArcs(B, tid, p_in, p_out) ==
    /\ ArcCount(B, p_in, tid) = 1
    /\ ArcCount(B, tid, p_out) = 1
    /\ \A p \in MutexPlaceIds(B) :
          /\ p # p_in => ArcCount(B, p, tid) = 0
          /\ p # p_out => ArcCount(B, tid, p) = 0

\* C3: in the built net every lock transition on K has exactly one arc from
\* p_mutex_K_free and exactly one arc to p_mutex_K_held and no other arc to
\* or from a mutex place; every unlock transition on K has exactly one arc
\* from p_mutex_K_held and exactly one to p_mutex_K_free and no other.
C3_LockUnlockArcs ==
    NetBuilt =>
        \A i \in 1..Len(builder.transitions) :
            LET t == builder.transitions[i]
            IN  /\ t.kind = "lock" =>
                      OnlyMutexArcs(builder, t.id, MutexFreeId(t.op), MutexHeldId(t.op))
                /\ t.kind = "unlock" =>
                      OnlyMutexArcs(builder, t.id, MutexHeldId(t.op), MutexFreeId(t.op))

\* The local a reference resolves to: m when the text holds "a = &m", else a.
BaseLocal(t, a) ==
    LET refs == {i \in 1..Len(t) : t[i].k = "ref" /\ t[i].x = a}
    IN  IF refs = {} THEN a ELSE t[CHOOSE i \in refs : TRUE].y

\* Blocks L, U, D of fn form the chain g1 = lock(a); g2 = unwrap/expect(g1);
\* drop(g2), each call being the terminator of its block and returning into
\* the next block of the chain.
IsChain(L, U, D) ==
    /\ ~L.is_cleanup /\ ~U.is_cleanup /\ ~D.is_cleanup
    /\ L.terminator.k = "call"
    /\ IsLockShape(L.terminator.c) /\ ~IsUnwrapShape(L.terminator.c)
    /\ L.terminator.x # ""
    /\ Len(L.terminator.args) = 1
    /\ U.terminator.k = "call"
    /\ IsUnwrapShape(U.terminator.c)
    /\ U.terminator.x # ""
    /\ U.terminator.args = <<Arg("move", L.terminator.x)>>
    /\ D.terminator.k = "drop"
    /\ D.terminator.x = U.terminator.x
    /\ L.terminator.n = U.bb_id
    /\ U.terminator.n = D.bb_id

\* C5: for every chain g1 = lock(a); g2 = unwrap/expect(g1); drop(g2) of a
\* parsed function, guard_to_mutex_key maps g1 and g2 to the base local of a,
\* and in the built net the transition of the drop edge is an unlock
\* transition whose op is that base local.
C5_GuardPropagation ==
    pc # "parse" =>
        \A f \in 1..Len(functions) :
            LET fn == functions[f]
                n == Len(fn.basic_blocks)
            IN  \A l, u, d \in 1..n :
                    LET L == fn.basic_blocks[l]
                        U == fn.basic_blocks[u]
                        D == fn.basic_blocks[d]
                        base == BaseLocal(text, L.terminator.args[1].loc)
                        tid == TransEdgeId(fn.name, D.bb_id, D.terminator.n)
                    IN  IsChain(L, U, D) =>
                          /\ L.terminator.x \in DOMAIN fn.guard_to_mutex_key
                          /\ U.terminator.x \in DOMAIN fn.guard_to_mutex_key
                          /\ fn.guard_to_mutex_key[L.terminator.x] = base
                          /\ fn.guard_to_mutex_key[U.terminator.x] = base
                          /\ (NetBuilt /\ f <= Len(fns_to_process)) =>
                                /\ tid \in TransitionIds(builder)
                                /\ TransitionById(builder, tid).kind = "unlock"
                                /\ TransitionById(builder, tid).op = base

\* The entry places of the processed functions that carry an initial token.
MarkedEntryPlaces ==
    {i \in 1..Len(builder.places) :
        /\ builder.places[i].init_tokens > 0
        /\ \E q \in 1..Len(fns_to_process) :
              builder.places[i].id = PlaceEntryId(fns_to_process[q].name)}

EntryProcessed == \E q \in 1..Len(fns_to_process) : fns_to_process[q].name = entry_fn

\* C6 as claimed: whenever at least one function is processed, exactly one
\* function-entry place has a non-zero initial marking, the entry function's.
C6_ExactlyOneMarkedEntry ==
    (NetBuilt /\ Len(fns_to_process) >= 1) =>
        /\ Cardinality(MarkedEntryPlaces) = 1
        /\ \A i \in MarkedEntryPlaces : builder.places[i].id = PlaceEntryId(entry_fn)

\* C6 as amended: when a function named entry_fn is among the processed
\* functions, exactly one function-entry place has a non-zero initial
\* marking, the entry function's; when none is, no entry place has one.
C6_MarkedEntryIffProcessed ==
    (NetBuilt /\ Len(fns_to_process) >= 1) =>
        IF EntryProcessed
        THEN /\ Cardinality(MarkedEntryPlaces) = 1
             /\ \A i \in MarkedEntryPlaces : builder.places[i].id = PlaceEntryId(entry_fn)
        ELSE MarkedEntryPlaces = {}

\* Two functions were processed, the entry function and another one.
C6_Witness ==
    /\ NetBuilt
    /\ Len(fns_to_process) = 2
    /\ EntryProcessed
    /\ \E q \in 1..2 : fns_to_process[q].name # entry_fn
    /\ Cardinality(MarkedEntryPlaces) = 1

NonCleanupBlocks(fn) ==
    {fn.basic_blocks[b] : b \in {q \in 1..Len(fn.basic_blocks) : ~fn.basic_blocks[q].is_cleanup}}

SuccessorIds(bb) ==
    LET term == bb.terminator
    IN  IF term.k \in {"goto", "drop", "call"} THEN {term.n}
        ELSE IF term.k = "switch" THEN {term.ts[j] : j \in 1..Len(term.ts)}
        ELSE {}

EdgesToNoPlace ==
    UNION { UNION { {TransEdgeId(fns_to_process[q].name, bb.bb_id, tg) :
                        tg \in SuccessorIds(bb)
                               \ {nb.bb_id : nb \in NonCleanupBlocks(fns_to_process[q])}}
                    : bb \in NonCleanupBlocks(fns_to_process[q]) }
            : q \in 1..Len(fns_to_process) }

C8_ArcsWellFormed ==
    NetBuilt =>
        /\ PlaceIds(builder) \cap TransitionIds(builder) = {}
        /\ \A i \in 1..Len(builder.arcs) :
              LET a == builder.arcs[i]
              IN  \/ a.source \in PlaceIds(builder) /\ a.target \in TransitionIds(builder)
                  \/ a.source \in TransitionIds(builder) /\ a.target \in PlaceIds(builder)

\* The net has an edge whose target block does not exist and mutex arcs.
C8_Witness ==
    /\ NetBuilt
    /\ TransEdgeId("main", 0, 2) \in TransitionIds(builder)
    /\ PlaceBBId("main", 2) \notin PlaceIds(builder)
    /\ MutexPlaceIds(builder) # {}

\* C9: a SwitchInt terminator with target list ts on block bbK of f yields
\* Len(ts) transitions with an input arc from p_f_bbK, each with exactly one
\* input arc from that place.
C9_SwitchFanOut ==
    NetBuilt =>
        \A q \in 1..Len(fns_to_process) :
            \A b \in 1..Len(fns_to_process[q].basic_blocks) :
                LET bb == fns_to_process[q].basic_blocks[b]
                    p == PlaceBBId(fns_to_process[q].name, bb.bb_id)
                    out == {tid \in TransitionIds(builder) : ArcCount(builder, p, tid) >= 1}
                IN  (~bb.is_cleanup /\ bb.terminator.k = "switch") =>
                        /\ Cardinality(out) = Len(bb.terminator.ts)
                        /\ \A tid \in out : ArcCount(builder, p, tid) = 1

\* parse_mir finds a header whose body is not brace-balanced.
RECURSIVE UnbalancedFrom(_, _)
UnbalancedFrom(t, p) ==
    LET h == FindHeader(t, p)
    IN  /\ h # 0
        /\ \/ ~Balanced(t, h)
           \/ UnbalancedFrom(t, MatchBrace(t, h + 1, 1) + 1)

\* C10: when a function header is found whose body is not brace-balanced,
\* parse raises ParseError, no function list is returned, no net is built
\* and main exits with status 1.
C10_UnbalancedIsParseError ==
    (pc # "parse" /\ UnbalancedFrom(text, 1)) =>
        /\ error = "ParseError"
        /\ pc = "exit"
        /\ exit_code = <<1>>
        /\ builder = NewBuilder

-----------------------------------------------------------------------------
-----------------------------------------------------------------------------
\* The warnings of the net that name this block, reason and callee.
WarningsOf(B, fn, bb, reason, callee) ==
    {i \in 1..Len(B.warnings) :
        B.warnings[i] = [function |-> fn.name,
                         basic_block |-> "bb" \o ToString(bb.bb_id),
                         line |-> bb.line_start,
                         reason |-> reason,
                         callee |-> callee]}

\* The non-cleanup blocks of fn whose terminator is a call of a callee that
\* is not of the mutex-lock shape.
UnrecognizedCallBlocks(fn) ==
    {bb \in NonCleanupBlocks(fn) :
        /\ bb.terminator.k = "call"
        /\ ~IsLockShape(bb.terminator.c)}

(* C12: for every non-cleanup block whose terminator is a call of a callee *)
(* that is not of the mutex-lock shape, the net holds exactly one          *)
(* transition on the edge to the return target, of kind cfg, with op unset *)
(* and no arc to or from a mutex place, and exactly one warning            *)
(* "unrecognized call, treated as CFG edge" naming the callee.             *)
C12_UnrecognizedCallIsCfgEdge ==
    NetBuilt =>
        \A n \in 1..Len(fns_to_process) :
            LET fn == fns_to_process[n]
            IN  \A bb \in UnrecognizedCallBlocks(fn) :
                    LET tid == TransEdgeId(fn.name, bb.bb_id, bb.terminator.n)
                        ts == {q \in 1..Len(builder.transitions) :
                                  builder.transitions[q].id = tid}
                    IN  /\ Cardinality(ts) = 1
                        /\ \A q \in ts : /\ builder.transitions[q].kind = "cfg"
                                          /\ builder.transitions[q].op = ""
                        /\ \A a \in 1..Len(builder.arcs) :
                              /\ builder.arcs[a].source = tid
                                    => builder.arcs[a].target \notin MutexPlaceIds(builder)
                              /\ builder.arcs[a].target = tid
                                    => builder.arcs[a].source \notin MutexPlaceIds(builder)
                        /\ Cardinality(WarningsOf(builder, fn, bb,
                               "unrecognized call, treated as CFG edge",
                               bb.terminator.c)) = 1

-----------------------------------------------------------------------------
\* The non-cleanup blocks of fn with no terminator.
NoTerminatorBlocks(fn) ==
    {bb \in NonCleanupBlocks(fn) : bb.terminator.k = "none"}

\* Some other non-cleanup block of a processed function of this name has
\* the id of bb.
SharesId(fn, bb) ==
    \E n \in 1..Len(fns_to_process) :
        /\ fns_to_process[n].name = fn.name
        /\ \E other \in NonCleanupBlocks(fns_to_process[n]) :
              other.bb_id = bb.bb_id /\ other # bb

\* The builder state after one more warning.
WithWarning(B, fn, bb, reason, callee) ==
    [B EXCEPT !.warnings = Append(@, [function |-> fn.name,
                                      basic_block |-> "bb" \o ToString(bb.bb_id),
                                      line |-> bb.line_start,
                                      reason |-> reason,
                                      callee |-> callee])]

(* C13, as claimed: a non-cleanup block with no terminator has its place   *)
(* p_f_bbK in the net, that place is the source of no arc, and the net     *)
(* holds exactly one warning "no terminator found" for the block.          *)
C13_NoTerminatorPlaceHasNoArc ==
    NetBuilt =>
        \A n \in 1..Len(fns_to_process) :
            LET fn == fns_to_process[n]
            IN  \A bb \in NoTerminatorBlocks(fn) :
                    /\ PlaceBBId(fn.name, bb.bb_id) \in PlaceIds(builder)
                    /\ OutDegree(builder, PlaceBBId(fn.name, bb.bb_id)) = 0
                    /\ Cardinality(WarningsOf(builder, fn, bb,
                           "no terminator found", "")) = 1

(* C13, amended: processing a non-cleanup block with no terminator changes *)
(* the builder by one appended warning "no terminator found" and nothing   *)
(* else (no place, transition or arc, no arc id consumed); the block's     *)
(* place is in the net, and it is the source of no arc unless another      *)
(* non-cleanup block of a processed function of the same name has its id.  *)
C13_NoTerminatorAddsOnlyWarning ==
    \A n \in 1..Len(fns_to_process) :
        LET fn == fns_to_process[n]
        IN  \A bb \in NoTerminatorBlocks(fn) :
                /\ BuildBlock(builder, fn, bb)
                      = WithWarning(builder, fn, bb, "no terminator found", "")
                /\ NetBuilt =>
                      /\ PlaceBBId(fn.name, bb.bb_id) \in PlaceIds(builder)
                      /\ Cardinality(WarningsOf(builder, fn, bb,
                             "no terminator found", "")) = 1
                      /\ ~SharesId(fn, bb) =>
                            OutDegree(builder, PlaceBBId(fn.name, bb.bb_id)) = 0

\* A net is built from a function with a block without terminator that
\* shares its id, and its place, with a block that has one.
C13_Witness ==
    /\ NetBuilt
    /\ \E n \in 1..Len(fns_to_process) :
          \E bb \in NoTerminatorBlocks(fns_to_process[n]) :
              /\ SharesId(fns_to_process[n], bb)
              /\ OutDegree(builder, PlaceBBId(fns_to_process[n].name, bb.bb_id)) >= 1
              /\ Cardinality(WarningsOf(builder, fns_to_process[n], bb,
                     "no terminator found", "")) = 1

-----------------------------------------------------------------------------
\* The value of the first assignment to key in a log of assignments.
FirstBinding(log, key) ==
    LET idx == {i \in 1..Len(log) : log[i].key = key}
    IN  log[CHOOSE i \in idx : \A q \in idx : i <= q].value

(* C14: in every parsed function, ref_to_base and guard_to_mutex_key hold  *)
(* for each local the value of the first assignment made to it while the   *)
(* function was parsed: a later assignment to a bound local is ignored.    *)
C14_FirstBindingWins ==
    \A n \in 1..Len(functions) :
        /\ \A key \in DOMAIN functions[n].ref_to_base :
              functions[n].ref_to_base[key] = FirstBinding(bind_log[n].ref, key)
        /\ \A key \in DOMAIN functions[n].guard_to_mutex_key :
              functions[n].guard_to_mutex_key[key]
                  = FirstBinding(bind_log[n].guard, key)

-----------------------------------------------------------------------------
\* The cleanup blocks of fn.
CleanupBlocks(fn) ==
    {fn.basic_blocks[b] : b \in {q \in 1..Len(fn.basic_blocks) :
                                    fn.basic_blocks[q].is_cleanup}}

\* Block ids a terminator or an unwind clause can name.
BlockIds == 0..(MaxBlocks + 2)

\* The ids of the transitions out of block K of a function named f.
TransitionIdsFrom(f, K) ==
    {TransEdgeId(f, K, M) : M \in BlockIds} \cup {TransReturnId(f, K)}

(* C15, as claimed: for every cleanup block with id K of a processed       *)
(* function f the net has no place p_f_bbK, no transition t_f_bbK_to_* or  *)
(* t_f_bbK_return, no arc at them and no warning for bbK of f; and for no  *)
(* drop or call of a non-cleanup block is there a transition from the      *)
(* block to its unwind target.                                             *)
C15_CleanupBlocksLeaveNoTrace ==
    NetBuilt =>
        \A n \in 1..Len(fns_to_process) :
            LET fn == fns_to_process[n]
                f == fn.name
            IN  /\ \A bb \in CleanupBlocks(fn) :
                      /\ PlaceBBId(f, bb.bb_id) \notin PlaceIds(builder)
                      /\ TransitionIdsFrom(f, bb.bb_id) \cap TransitionIds(builder) = {}
                      /\ \A a \in 1..Len(builder.arcs) :
                            {builder.arcs[a].source, builder.arcs[a].target}
                            \cap ({PlaceBBId(f, bb.bb_id)}
                                  \cup TransitionIdsFrom(f, bb.bb_id)) = {}
                      /\ \A w \in 1..Len(builder.warnings) :
                            ~ /\ builder.warnings[w].function = f
                              /\ builder.warnings[w].basic_block
                                    = "bb" \o ToString(bb.bb_id)
                /\ \A bb \in NonCleanupBlocks(fn) :
                      \A u \in bb.terminator.u :
                          TransEdgeId(f, bb.bb_id, u) \notin TransitionIds(builder)

\* The places, transitions and warnings the non-cleanup blocks of the
\* processed functions account for, unwind targets left out.
BlockPlaceIds ==
    UNION { {PlaceBBId(fns_to_process[n].name, bb.bb_id) :
                bb \in NonCleanupBlocks(fns_to_process[n])}
            : n \in 1..Len(fns_to_process) }

BlockTransitionIds ==
    UNION { UNION { {TransEdgeId(fns_to_process[n].name, bb.bb_id, M) :
                        M \in SuccessorIds(bb)}
                    \cup (IF bb.terminator.k = "return"
                          THEN {TransReturnId(fns_to_process[n].name, bb.bb_id)}
                          ELSE {})
                    : bb \in NonCleanupBlocks(fns_to_process[n]) }
            : n \in 1..Len(fns_to_process) }

BlockWarningKeys ==
    UNION { {<<fns_to_process[n].name, "bb" \o ToString(bb.bb_id), bb.line_start>> :
                bb \in NonCleanupBlocks(fns_to_process[n])}
            : n \in 1..Len(fns_to_process) }

(* C15, amended: a cleanup block adds nothing to the builder, and every    *)
(* block place, every transition other than a start transition and every   *)
(* warning of the net is that of a non-cleanup block; a transition         *)
(* t_f_bbK_to_bbM is in the net only if M is a goto, switch or return      *)
(* target of a non-cleanup block K of a function named f.                  *)
C15_OnlyNonCleanupBlocksContribute ==
    /\ \A n \in 1..Len(fns_to_process) :
          \A bb \in CleanupBlocks(fns_to_process[n]) :
              BuildBlock(builder, fns_to_process[n], bb) = builder
    /\ NetBuilt =>
          /\ \A i \in 1..Len(builder.places) :
                \/ builder.places[i].kind # "cfg"
                \/ builder.places[i].id \in BlockPlaceIds
                \/ \E n \in 1..Len(fns_to_process) :
                      builder.places[i].id \in {PlaceEntryId(fns_to_process[n].name),
                                                PlaceExitId(fns_to_process[n].name)}
          /\ \A tid \in TransitionIds(builder) :
                \/ tid \in BlockTransitionIds
                \/ \E n \in 1..Len(fns_to_process) :
                      tid = TransStartId(fns_to_process[n].name)
          /\ \A w \in 1..Len(builder.warnings) :
                <<builder.warnings[w].function, builder.warnings[w].basic_block,
                  builder.warnings[w].line>> \in BlockWarningKeys

\* A net is built from a function with a cleanup block whose id a non-cleanup
\* block shares, and with a drop or call that names an unwind target.
C15_Witness ==
    /\ NetBuilt
    /\ \E n \in 1..Len(fns_to_process) :
          LET fn == fns_to_process[n]
          IN  /\ \E bb \in CleanupBlocks(fn) :
                    PlaceBBId(fn.name, bb.bb_id) \in PlaceIds(builder)
    /\ \E n \in 1..Len(fns_to_process) :
          \E bb \in NonCleanupBlocks(fns_to_process[n]) :
              /\ bb.terminator.u # {}
              /\ TransEdgeId(fns_to_process[n].name, bb.bb_id, bb.terminator.n)
                    \in TransitionIds(builder)

-----------------------------------------------------------------------------
\* The non-cleanup blocks of fn whose terminator is g = lock(a) with a local a.
LockCallBlocks(fn) ==
    {bb \in NonCleanupBlocks(fn) :
        /\ bb.terminator.k = "call"
        /\ IsLockShape(bb.terminator.c)
        /\ bb.terminator.x # ""
        /\ ExtractFirstLocal(bb.terminator.args) # ""}

(* C16: for every non-cleanup block whose terminator is a lock-shaped call *)
(* g = lock(a) with a local a, the key the builder resolves for the lock   *)
(* transition, and the op of that transition in the net, equal             *)
(* guard_to_mutex_key[g] as the parser bound it: a drop(g) unlocks the key *)
(* that was locked.                                                        *)
C16_ParserAndBuilderAgreeOnLockKey ==
    NetBuilt =>
        \A n \in 1..Len(fns_to_process) :
            LET fn == fns_to_process[n]
            IN  \A bb \in LockCallBlocks(fn) :
                    LET g == bb.terminator.x
                        tid == TransEdgeId(fn.name, bb.bb_id, bb.terminator.n)
                    IN  /\ g \in DOMAIN fn.guard_to_mutex_key
                        /\ LockKey(bb.terminator, fn) = fn.guard_to_mutex_key[g]
                        /\ TransitionById(builder, tid).op = fn.guard_to_mutex_key[g]

-----------------------------------------------------------------------------
\* The CFG places and the transitions of the functions named f.
CfgPlaceIdsOf(f) ==
    {PlaceEntryId(f), PlaceExitId(f)} \cup {PlaceBBId(f, K) : K \in BlockIds}

TransitionIdsOf(f) ==
    {TransStartId(f)} \cup UNION {TransitionIdsFrom(f, K) : K \in BlockIds}

\* Tokens on the CFG places among places[i..] under marking m.
RECURSIVE CfgTokensFrom(_, _, _)
CfgTokensFrom(places, i, m) ==
    IF i > Len(places) THEN 0
    ELSE (IF places[i].kind = "cfg" THEN m[places[i].id] ELSE 0)
         + CfgTokensFrom(places, i + 1, m)

(* C17: in every marking the written net reaches, every CFG place of a     *)
(* processed function whose name is not entry_fn holds no token, no        *)
(* transition of such a function is enabled, and the CFG places hold at    *)
(* most one token in all.                                                  *)
C17_ControlStaysInEntryFunction ==
    Running =>
        /\ \A n \in 1..Len(fns_to_process) :
              fns_to_process[n].name # entry_fn =>
                  /\ \A p \in CfgPlaceIdsOf(fns_to_process[n].name) \cap DOMAIN marking :
                        marking[p] = 0
                  /\ \A tid \in TransitionIdsOf(fns_to_process[n].name)
                                  \cap TransitionIds(builder) :
                        ~Enabled(builder, marking, tid)
        /\ CfgTokensFrom(builder.places, 1, marking) <= 1

\* The token of the entry function has moved while another function of the
\* net holds a lock transition whose mutex is free.
C17_Witness ==
    /\ Running
    /\ last_fired # ""
    /\ CfgTokensFrom(builder.places, 1, marking) = 1
    /\ \E n \in 1..Len(fns_to_process) :
          /\ fns_to_process[n].name # entry_fn
          /\ \E tid \in TransitionIdsOf(fns_to_process[n].name)
                          \cap TransitionIds(builder) :
                /\ TransitionById(builder, tid).kind = "lock"
                /\ marking[MutexFreeId(TransitionById(builder, tid).op)] = 1

=============================================================================
